---- MODULE Spec2Model ----
(***************************************************************************)
(* Model of transcribeSummarize.py: recursive discovery of media files and *)
(* the skip/force transcription driver with its two strategies.            *)
(*                                                                         *)
(* A Python str is a sequence of one-character strings, so that path       *)
(* parsing, string formatting, the regular expression and the substring    *)
(* test are computed and not assumed.  The filesystem fs maps the path the *)
(* operating system resolves a string to (see realpath) to the entry found *)
(* there.                                                                  *)
(***************************************************************************)
EXTENDS Integers, Sequences, FiniteSets, TLC

\* ------------------------------------------------------------------ bounds
\* longest input path handed to transcribe_file in the driver specification
MaxPathLen == 3
\* longest input path handed to transcribe_file_cli in the specification of the
\* external-process strategy
MaxCliPathLen == 5
\* largest number of entries below the root of a directory tree
MaxEntries == 2

\* ------------------------------------------------------------ str literals
\* ".transcribed.txt"
TranscribedSuffix == <<".", "t", "r", "a", "n", "s", "c", "r", "i", "b", "e", "d", ".", "t", "x", "t">>

\* ".json"
JsonSuffix == <<".", "j", "s", "o", "n">>

\* the alternatives of the default pattern
MediaExtensions ==
  { <<"w", "a", "v">>, <<"m", "p", "3">>, <<"m", "p", "4">>, <<"a", "v", "i">>,
    <<"m", "o", "v">>, <<"f", "l", "v">>, <<"m", "k", "v">>, <<"w", "m", "v">> }

\* ---------------------------------------------------------------- pathlib
\* s.split("/") continued from index i, cur being the piece read so far
RECURSIVE split(_, _, _)
split(s, i, cur) ==
  IF i > Len(s) THEN <<cur>>
  ELSE IF s[i] = "/" THEN <<cur>> \o split(s, i + 1, <<>>)
  ELSE split(s, i + 1, Append(cur, s[i]))

\* "/".join(parts)
RECURSIVE join(_)
join(parts) ==
  IF parts = <<>> THEN <<>>
  ELSE IF Len(parts) = 1 THEN parts[1]
  ELSE parts[1] \o <<"/">> \o join(Tail(parts))

\* the components pathlib keeps: empty pieces and "." are dropped, ".." is kept
Components(s) == SelectSeq(split(s, 1, <<>>), LAMBDA c : c # <<>> /\ c # <<".">>)

\* the root pathlib keeps: "/", or "//" for exactly two leading slashes
Root(s) ==
  IF Len(s) >= 1 /\ s[1] = "/"
  THEN IF Len(s) >= 2 /\ s[2] = "/" /\ ~(Len(s) >= 3 /\ s[3] = "/")
       THEN <<"/", "/">>
       ELSE <<"/">>
  ELSE <<>>

\* pathlib.Path(s)
Path(s) == [root |-> Root(s), parts |-> Components(s)]

\* str(p)
str(p) == IF p.root = <<>> /\ p.parts = <<>> THEN <<".">> ELSE p.root \o join(p.parts)

\* p.parent
parent(p) == IF p.parts = <<>> THEN p ELSE [p EXCEPT !.parts = SubSeq(@, 1, Len(@) - 1)]

\* p.name
name(p) == IF p.parts = <<>> THEN <<>> ELSE p.parts[Len(p.parts)]

\* n.rfind("."), 1-based, 0 when there is no dot
rfind_dot(n) ==
  LET I == {i \in 1..Len(n) : n[i] = "."}
  IN IF I = {} THEN 0 ELSE CHOOSE i \in I : \A j \in I : j <= i

\* p.suffix: from the last dot of the name, unless that dot is first or last
suffix(p) ==
  LET n == name(p)
      i == rfind_dot(n)
  IN IF 1 < i /\ i < Len(n) THEN SubSeq(n, i, Len(n)) ELSE <<>>

\* p.stem: the name without its suffix
stem(p) ==
  LET n == name(p)
      i == rfind_dot(n)
  IN IF 1 < i /\ i < Len(n) THEN SubSeq(n, 1, i - 1) ELSE n

\* ------------------------------------------------------------- filesystem
\* The entry a path string names once the operating system has resolved it:
\* repeated slashes and "." components do not change the entry.
realpath(s) == (IF Len(s) >= 1 /\ s[1] = "/" THEN <<"/">> ELSE <<>>) \o join(Components(s))

\* pathlib.Path(s).exists()
exists(fs, s) == realpath(s) \in DOMAIN fs

\* whether s names a regular file
is_file(fs, s) == exists(fs, s) /\ fs[realpath(s)].kind = "file"

\* open(s, "w") followed by the writes made before the file is closed
open_w(fs, s, data) == (realpath(s) :> [kind |-> "file", data |-> data]) @@ fs

\* ----------------------------------------------------------- return values
ReturnPath(p) == [kind |-> "path", path |-> p, exc |-> ""]

ReturnProcess == [kind |-> "CompletedProcess", path |-> <<>>, exc |-> ""]

Raise(e) == [kind |-> "raise", path |-> <<>>, exc |-> e]

\* ------------------------------------------------------ external collaborators
\* what a transcription produces
Texts == {"text"}

\* the whisper executable: exit status and what it wrote to standard output
CliOutcomes ==
  {[status |-> "exit0", data |-> t] : t \in Texts}
    \cup {[status |-> "exit1", data |-> t] : t \in {"", "partial"}}

\* the whisper module: load_model and transcribe return, or one of them raises
\* a RuntimeError, or an error of another class
EngineOutcomes ==
  {[status |-> "ok", data |-> t] : t \in Texts}
    \cup {[status |-> s, data |-> ""] : s \in {"RuntimeError", "Error"}}

\* the dict model.transcribe returns
Result(t) == [type |-> "dict", text |-> t]

\* ----------------------------------------------------------------- driver
\* f"{file}.transcribed.txt"
transcribed_file(file) == file \o TranscribedSuffix

\* mutant: the extension is left out of the output name
cli_output_file_stem_only(file) ==
  str(parent(Path(file))) \o <<"/">> \o stem(Path(file)) \o TranscribedSuffix

\* f"{root_dir}/{file_name_stem}{file_type}.transcribed.txt"
cli_output_file(file) ==
  str(parent(Path(file))) \o <<"/">> \o stem(Path(file)) \o suffix(Path(file))
    \o TranscribedSuffix

\* the filesystem without the entry s names (used by the mutant below only)
unlink(fs, s) == [k \in DOMAIN fs \ {realpath(s)} |-> fs[k]]

\* mutant: the output file is removed when the command fails
transcribe_file_cli_cleans_up(fs, file, o) ==
  LET fs1 == open_w(fs, cli_output_file(file), o.data)
  IN IF o.status = "exit0"
     THEN [fs |-> fs1, ret |-> ReturnProcess, cli |-> 1, eng |-> 0, skipped |-> FALSE]
     ELSE [fs |-> unlink(fs1, cli_output_file(file)), ret |-> Raise("CalledProcessError"),
           cli |-> 1, eng |-> 0, skipped |-> FALSE]

\* transcribe_file_cli: the output file is opened for writing, the command runs
\* once with its standard output going to the file, check=True raises on a
\* non-zero exit
transcribe_file_cli(fs, file, o) ==
  LET fs1 == open_w(fs, cli_output_file(file), o.data)
  IN [fs |-> fs1,
      ret |-> IF o.status = "exit0" THEN ReturnProcess ELSE Raise("CalledProcessError"),
      cli |-> 1, eng |-> 0, skipped |-> FALSE]

\* mutant: the output file is opened for writing before the engine is called
transcribe_in_process_opens_first(fs, file, o) ==
  LET fs0 == open_w(fs, transcribed_file(file), "")
  IN IF o.status = "RuntimeError"
     THEN [fs |-> fs0, ret |-> ReturnPath(file), cli |-> 0, eng |-> 1, skipped |-> FALSE]
     ELSE IF o.status # "ok"
     THEN [fs |-> fs0, ret |-> Raise("Error"), cli |-> 0, eng |-> 1, skipped |-> FALSE]
     ELSE [fs |-> open_w(open_w(fs, transcribed_file(file), o.data),
                         transcribed_file(file) \o JsonSuffix, ""),
           ret |-> Raise("TypeError"), cli |-> 0, eng |-> 1, skipped |-> FALSE]

\* the try block of transcribe_file
transcribe_in_process(fs, file, o) ==
  IF o.status = "RuntimeError"
  THEN [fs |-> fs, ret |-> ReturnPath(file), cli |-> 0, eng |-> 1, skipped |-> FALSE]
  ELSE IF o.status # "ok"
  THEN [fs |-> fs, ret |-> Raise("Error"), cli |-> 0, eng |-> 1, skipped |-> FALSE]
  ELSE
    LET result == Result(o.data)
        fs1 == open_w(fs, transcribed_file(file), result.text)
        \* the sidecar is opened, then jf.write(result) is given a dict
        fs2 == open_w(fs1, transcribed_file(file) \o JsonSuffix, "")
    IN IF result.type = "str"
       THEN [fs |-> open_w(fs1, transcribed_file(file) \o JsonSuffix, result.text),
             ret |-> ReturnPath(transcribed_file(file)),
             cli |-> 0, eng |-> 1, skipped |-> FALSE]
       ELSE [fs |-> fs2, ret |-> Raise("TypeError"),
             cli |-> 0, eng |-> 1, skipped |-> FALSE]

\* mutant: the skip test has lost its "not"
transcribe_file_skip_if_forced(fs, file, force, climode, o) ==
  IF exists(fs, transcribed_file(file)) /\ force
  THEN [fs |-> fs, ret |-> ReturnPath(transcribed_file(file)),
        cli |-> 0, eng |-> 0, skipped |-> TRUE]
  ELSE IF climode THEN transcribe_file_cli(fs, file, o)
  ELSE transcribe_in_process(fs, file, o)

\* mutant: the skip test looks at the input file instead of the output file
transcribe_file_checks_input(fs, file, force, climode, o) ==
  IF exists(fs, file) /\ ~force
  THEN [fs |-> fs, ret |-> ReturnPath(transcribed_file(file)),
        cli |-> 0, eng |-> 0, skipped |-> TRUE]
  ELSE IF climode THEN transcribe_file_cli(fs, file, o)
  ELSE transcribe_in_process(fs, file, o)

\* mutant: the skip test does not read force
transcribe_file_ignores_force(fs, file, force, climode, o) ==
  IF exists(fs, transcribed_file(file))
  THEN [fs |-> fs, ret |-> ReturnPath(transcribed_file(file)),
        cli |-> 0, eng |-> 0, skipped |-> TRUE]
  ELSE IF climode THEN transcribe_file_cli(fs, file, o)
  ELSE transcribe_in_process(fs, file, o)

\* transcribe_file
transcribe_file(fs, file, force, climode, o) ==
  IF exists(fs, transcribed_file(file)) /\ ~force
  THEN [fs |-> fs, ret |-> ReturnPath(transcribed_file(file)),
        cli |-> 0, eng |-> 0, skipped |-> TRUE]
  ELSE IF climode THEN transcribe_file_cli(fs, file, o)
  ELSE transcribe_in_process(fs, file, o)

\* what the two collaborators can do for this call
Outcomes(fs, file, climode) ==
  IF climode
  THEN CliOutcomes
  ELSE {o \in EngineOutcomes : o.status = "ok" => is_file(fs, file)}

\* ------------------------------------------------- specification of the driver
\* fs: the filesystem; file: the path handed to transcribe_file; last, prev: what
\* the last two calls of transcribe_file were given, did and returned; pc, opts,
\* files, idx, status: the command being run (used by SpecCmd, idle here)
VARIABLES fs, file, last, prev, pc, opts, files, idx, status

vars == <<fs, file, last, prev, pc, opts, files, idx, status>>

PathAlphabet == {"a", ".", "/"}

\* all strings over PathAlphabet of length 1..n
RECURSIVE Strings(_)
Strings(n) ==
  IF n = 0 THEN {<<>>}
  ELSE LET S == Strings(n - 1)
       IN S \cup {Append(s, c) : s \in {t \in S : Len(t) = n - 1}, c \in PathAlphabet}

\* the strings of length 1..n that can name a regular file: no trailing slash,
\* and the last component is a name
FilePaths(n) ==
  {s \in Strings(n) :
     /\ s # <<>>
     /\ s[Len(s)] # "/"
     /\ LET c == split(s, 1, <<>>) IN c[Len(c)] \notin {<<".">>, <<".", ".">>}}

\* the entry of a regular file
File(data) == [kind |-> "file", data |-> data]

\* the record of a call that has not been made
NoCall ==
  [called |-> FALSE, file |-> <<>>, force |-> FALSE, climode |-> FALSE,
   outcome |-> "none", data |-> "", pre |-> <<>>, post |-> <<>>,
   ret |-> ReturnPath(<<>>), cli |-> 0, eng |-> 0, skipped |-> FALSE]

\* the record of the call transcribe_file(f, force=fo, climode=cm) made on
\* filesystem before with the collaborators behaving as o, r being its result
CallRecord(before, f, fo, cm, o, r) ==
  [called |-> TRUE, file |-> f, force |-> fo, climode |-> cm,
   outcome |-> IF r.skipped THEN "none" ELSE o.status,
   data |-> IF r.skipped THEN "" ELSE o.data,
   pre |-> before, post |-> r.fs,
   ret |-> r.ret, cli |-> r.cli, eng |-> r.eng, skipped |-> r.skipped]

NoOpts ==
  [command |-> "none", directory |-> <<>>, pattern |-> "None", ignore |-> <<>>,
   force |-> FALSE, climode |-> FALSE]

\* the filesystems a call on f starts from: f exists, and its output is absent
\* or was left by an earlier run
InitialFs(f) ==
  {(realpath(f) :> File("media"))}
    \cup {(realpath(f) :> File("media")) @@ (realpath(transcribed_file(f)) :> File(prior)) :
            prior \in {"old", ""}}

Init ==
  /\ file \in FilePaths(MaxPathLen)
  /\ fs \in InitialFs(file)
  /\ last = NoCall
  /\ prev = NoCall
  /\ pc = "api"
  /\ opts = NoOpts
  /\ files = <<>>
  /\ idx = 0
  /\ status = <<>>

\* one call transcribe_file(file, force=fo, climode=cm)
Call(fo, cm, o) ==
  \E r \in {transcribe_file(fs, file, fo, cm, o)} :
     /\ pc = "api"
     /\ fs' = r.fs
     /\ prev' = last
     /\ last' = CallRecord(fs, file, fo, cm, o, r)
     /\ UNCHANGED <<file, pc, opts, files, idx, status>>

Next == \E fo \in BOOLEAN, cm \in BOOLEAN : \E o \in Outcomes(fs, file, cm) : Call(fo, cm, o)

Spec == Init /\ [][Next]_vars

\* --------------------------------- specification of the external-process strategy
\* transcribe_file_cli called on longer paths
InitCli ==
  /\ file \in FilePaths(MaxCliPathLen)
  /\ fs \in InitialFs(file)
  /\ last = NoCall
  /\ prev = NoCall
  /\ pc = "cli"
  /\ opts = NoOpts
  /\ files = <<>>
  /\ idx = 0
  /\ status = <<>>

\* one call transcribe_file_cli(file)
CallCli(o) ==
  \E r \in {transcribe_file_cli(fs, file, o)} :
     /\ pc = "cli"
     /\ fs' = r.fs
     /\ last' = CallRecord(fs, file, TRUE, TRUE, o, r)
     /\ UNCHANGED <<file, prev, pc, opts, files, idx, status>>

NextCli == \E o \in CliOutcomes : CallCli(o)

SpecCli == InitCli /\ [][NextCli]_vars

\* -------------------------------------------------------------- discovery
\* None, which is no str
None == <<"None">>

\* sub in s
contains(s, sub) ==
  \E i \in 0..(Len(s) - Len(sub)) : SubSeq(s, i + 1, i + Len(sub)) = sub

\* re.compile(r".*\.(wav|mp3|mp4|avi|mov|flv|mkv|wmv)$").match(s), for s without
\* line breaks
default_pattern_match(s) ==
  \E ext \in MediaExtensions :
    /\ Len(s) >= Len(ext) + 1
    /\ SubSeq(s, Len(s) - Len(ext), Len(s)) = <<".">> \o ext

\* pattern.match(s): the default pattern, or the pattern ".*" given by --pattern
match(pattern, s) == IF pattern = "None" THEN default_pattern_match(s) ELSE TRUE

\* whether entry k lies below the directory whose str is root
is_below(k, root) ==
  IF root = <<".">>
  THEN k # <<>> /\ k[1] # "/"
  ELSE /\ Len(k) > Len(root) + 1
       /\ SubSeq(k, 1, Len(root)) = root
       /\ k[Len(root) + 1] = "/"

\* the paths pathlib.Path(directory).rglob("*") yields, as str: every entry below
\* the directory, files and directories alike
rglob(filesystem, directory) ==
  {str(Path(k)) : k \in {e \in DOMAIN filesystem : is_below(e, str(Path(directory)))}}

\* the orders in which the entries of S can be yielded
Orders(S) ==
  {q \in [1..Cardinality(S) -> S] : \A i, j \in DOMAIN q : q[i] = q[j] => i = j}

\* [action(f) for f in files]
map_action(action, fseq) ==
  [i \in DOMAIN fseq |-> IF action = "name" THEN name(Path(fseq[i])) ELSE fseq[i]]

\* mutant: the ignore substring is looked for in the file name only
get_files_recursive_ignore_in_name(entries, pattern, ignore, action) ==
  LET matched == SelectSeq(entries, LAMBDA f : match(pattern, f))
      kept == IF ignore # None
              THEN SelectSeq(matched, LAMBDA f : ~contains(name(Path(f)), ignore))
              ELSE matched
  IN IF action # "None" THEN map_action(action, kept) ELSE kept

\* get_files_recursive, entries being what rglob yields, in the order it yields
get_files_recursive(entries, pattern, ignore, action) ==
  LET matched == SelectSeq(entries, LAMBDA f : match(pattern, f))
      kept == IF ignore # None
              THEN SelectSeq(matched, LAMBDA f : ~contains(f, ignore))
              ELSE matched
  IN IF action # "None" THEN map_action(action, kept) ELSE kept

\* ------------------------------------------------------------ the commands
\* the entries a tree below the root can hold: path below the root, kind, and
\* the directory entry it needs
TreeUniverse ==
  { [rel |-> <<"a", ".", "w", "a", "v">>, kind |-> "file", needs |-> <<>>],
    [rel |-> <<"a", ".", "W", "A", "V">>, kind |-> "file", needs |-> <<>>],
    [rel |-> <<"x", "w", "a", "v">>, kind |-> "file", needs |-> <<>>],
    [rel |-> <<"n", ".", "t", "x", "t">>, kind |-> "file", needs |-> <<>>],
    [rel |-> <<"a", "k", ".", "m", "o", "v">>, kind |-> "file", needs |-> <<>>],
    [rel |-> <<"a", ".", "w", "a", "v">> \o TranscribedSuffix, kind |-> "file", needs |-> <<>>],
    [rel |-> <<"c", ".", "m", "p", "4">>, kind |-> "file", needs |-> <<>>],
    [rel |-> <<"c", ".", "m", "p", "4">>, kind |-> "dir", needs |-> <<>>],
    [rel |-> <<"c", ".", "m", "p", "4", "/", "b", ".", "m", "p", "3">>, kind |-> "file",
     needs |-> <<"c", ".", "m", "p", "4">>],
    [rel |-> <<"k">>, kind |-> "dir", needs |-> <<>>],
    [rel |-> <<"k", "/", "a", ".", "w", "a", "v">>, kind |-> "file", needs |-> <<"k">>] }

\* the sets of entries that form a tree: one entry per path, and every entry in
\* a directory of the tree
Trees ==
  {T \in SUBSET TreeUniverse :
     /\ Cardinality(T) <= MaxEntries
     /\ \A e1, e2 \in T : e1.rel = e2.rel => e1 = e2
     /\ \A e \in T : e.needs # <<>> => \E d \in T : d.rel = e.needs /\ d.kind = "dir"}

\* the filesystem holding tree T below directory root
TreeFs(root, T) ==
  [k \in {realpath(root \o <<"/">> \o e.rel) : e \in T} |->
     LET e == CHOOSE x \in T : realpath(root \o <<"/">> \o x.rel) = k
     IN [kind |-> e.kind, data |-> IF e.kind = "file" THEN "media" ELSE ""]]

\* the options of the transcribe and discover commands
Options ==
  [command : {"transcribe", "discover"},
   directory : {<<"d">>, <<".">>},
   pattern : {"None", ".*"},
   ignore : {None, <<"k">>, <<"d">>},
   force : BOOLEAN,
   climode : BOOLEAN]

InitCmd ==
  /\ opts \in {o \in Options : o.command = "discover" => ~o.force /\ ~o.climode}
  /\ \E T \in Trees : fs = TreeFs(opts.directory, T)
  /\ file = <<>>
  /\ last = NoCall
  /\ prev = NoCall
  /\ pc = "start"
  /\ files = <<>>
  /\ idx = 0
  /\ status = <<>>

\* discover: files = get_files_recursive(directory, pattern, ignore), then each
\* is printed
Discover ==
  /\ pc = "start"
  /\ opts.command = "discover"
  /\ \E entries \in Orders(rglob(fs, opts.directory)) :
       files' = get_files_recursive(entries, opts.pattern, opts.ignore, "None")
  /\ pc' = "done"
  /\ UNCHANGED <<fs, file, last, prev, opts, idx, status>>

\* transcribe: files = get_files_recursive(directory, pattern, ignore)
ListFiles ==
  /\ pc = "start"
  /\ opts.command = "transcribe"
  /\ \E entries \in Orders(rglob(fs, opts.directory)) :
       files' = get_files_recursive(entries, opts.pattern, opts.ignore, "None")
  /\ status' = [f \in {files'[i] : i \in DOMAIN files'} |-> [state |-> "Pending", calls |-> 0]]
  /\ pc' = IF files' = <<>> THEN "done" ELSE "loop"
  /\ UNCHANGED <<fs, file, last, prev, opts, idx>>

\* how a call of transcribe_file ended for its file
Ended(f, r) ==
  IF r.skipped THEN "Skipped"
  ELSE IF r.ret.kind = "raise" \/ r.ret = ReturnPath(f) THEN "Failed"
  ELSE "Transcribed"

\* mutant: the loop does not move on to the next file
next_index_stuck(i) == i

\* the for loop takes the files of the list one after the other
next_index(i) == i + 1

\* transcribe: one turn of "for f in files: transcribe_file(f, ...)"; an error
\* raised by the call ends the command
TranscribeNext(o) ==
  LET f == files[idx + 1]
  IN \E r \in {transcribe_file(fs, f, opts.force, opts.climode, o)} :
       /\ pc = "loop"
       /\ file' = f
       /\ fs' = r.fs
       /\ last' = CallRecord(fs, f, opts.force, opts.climode, o, r)
       /\ status' = [status EXCEPT ![f] = [state |-> Ended(f, r), calls |-> @.calls + 1]]
       /\ idx' = next_index(idx)
       /\ pc' = IF r.ret.kind = "raise" THEN "aborted"
                 ELSE IF idx' >= Len(files) THEN "done"
                 ELSE "loop"
       /\ UNCHANGED <<prev, opts, files>>

NextCmd ==
  \/ Discover
  \/ ListFiles
  \/ /\ pc = "loop"
     /\ \E o \in Outcomes(fs, files[idx + 1], opts.climode) : TranscribeNext(o)

SpecCmd == InitCmd /\ [][NextCmd]_vars

\* ------------------------------------------------------ claims on the driver
\* the calls on record
Calls == {c \in {last, prev} : c.called}

\* the entry '<file>.transcribed.txt' of the call's file, and its sidecar
OutKey(c) == realpath(c.file \o TranscribedSuffix)

SidecarKey(c) == realpath(c.file \o TranscribedSuffix \o JsonSuffix)

\* the number of times the call ran the external command or the engine
Invocations(c) == c.cli + c.eng

\* C1: a call with force=false whose output file exists, whatever it holds, runs
\* neither the external command nor the engine, leaves every file as it was and
\* returns '<file>.transcribed.txt'.
C1Thm ==
  \A c \in Calls :
    (~c.force /\ OutKey(c) \in DOMAIN c.pre)
      => /\ c.cli = 0
         /\ c.eng = 0
         /\ c.post = c.pre
         /\ c.ret = ReturnPath(c.file \o TranscribedSuffix)

\* a force=false call found an output file holding a failed command's leftovers
C1Wit ==
  /\ last.called
  /\ ~last.force
  /\ OutKey(last) \in DOMAIN last.pre
  /\ last.pre[OutKey(last)].data = "partial"
  /\ last.ret.kind = "path"

\* C2 as stated: two force=false calls in a row on a file without output make
\* exactly one transcription, on the first call, and the second call changes
\* nothing and returns the output path.
C2Orig ==
  (/\ prev.called
   /\ last.called
   /\ ~prev.force
   /\ ~last.force
   /\ OutKey(prev) \notin DOMAIN prev.pre)
    => /\ Invocations(prev) = 1
       /\ Invocations(last) = 0
       /\ last.post = last.pre
       /\ last.ret = ReturnPath(last.file \o TranscribedSuffix)

\* C2 amended: the first call makes exactly one transcription; the second call is
\* the no-op returning the output path unless the engine raised in the first
\* call, in which case no output exists and the second call transcribes again.
C2Thm ==
  (/\ prev.called
   /\ last.called
   /\ ~prev.force
   /\ ~last.force
   /\ OutKey(prev) \notin DOMAIN prev.pre)
    => /\ Invocations(prev) = 1
       /\ IF prev.outcome \in {"RuntimeError", "Error"}
          THEN /\ OutKey(last) \notin DOMAIN last.pre
               /\ Invocations(last) = 1
          ELSE /\ Invocations(last) = 0
               /\ last.post = last.pre
               /\ last.ret = ReturnPath(last.file \o TranscribedSuffix)

\* the engine transcribed on the first call and the second call was skipped
C2Wit ==
  /\ prev.called
  /\ last.called
  /\ ~prev.force
  /\ ~last.force
  /\ OutKey(prev) \notin DOMAIN prev.pre
  /\ prev.outcome = "ok"
  /\ Invocations(last) = 0

\* C3 as stated: a force=true call on a file whose output exists invokes the
\* strategy and leaves the new transcription result in the output file.
C3Orig ==
  \A c \in Calls :
    (c.force /\ OutKey(c) \in DOMAIN c.pre)
      => /\ Invocations(c) = 1
         /\ c.post[OutKey(c)].data \in Texts

\* C3 amended: such a call never skips and invokes the selected strategy once;
\* when the command exits 0 or the engine returns, the output file is rewritten
\* with the new result; when the engine raises the files stay as they were, and
\* when the command fails the output holds what the command wrote.
C3Thm ==
  \A c \in Calls :
    (c.force /\ OutKey(c) \in DOMAIN c.pre)
      => /\ ~c.skipped
         /\ c.cli = (IF c.climode THEN 1 ELSE 0)
         /\ c.eng = (IF c.climode THEN 0 ELSE 1)
         /\ c.outcome \in {"exit0", "ok"}
              => c.data \in Texts /\ c.post[OutKey(c)] = File(c.data)
         /\ c.outcome \in {"RuntimeError", "Error"} => c.post = c.pre
         /\ c.outcome = "exit1" => c.post[OutKey(c)] = File(c.data)

\* an old output was replaced by a forced, successful transcription
C3Wit ==
  /\ last.called
  /\ last.force
  /\ OutKey(last) \in DOMAIN last.pre
  /\ last.pre[OutKey(last)].data = "old"
  /\ last.outcome = "exit0"
  /\ last.post[OutKey(last)].data = "text"

\* C4: the file the external-process strategy writes is the '<file>.transcribed.txt'
\* whose existence decides the skip, for a.wav it is a.wav.transcribed.txt, and
\* after a run that exits 0 it holds the command's standard output.
C4Thm ==
  /\ realpath(cli_output_file(<<"a", ".", "w", "a", "v">>))
       = <<"a", ".", "w", "a", "v">> \o TranscribedSuffix
  /\ \A c \in Calls :
       /\ realpath(cli_output_file(c.file)) = realpath(transcribed_file(c.file))
       /\ realpath(cli_output_file(c.file)) = OutKey(c)
       /\ (c.climode /\ c.outcome = "exit0") => c.post[OutKey(c)] = File(c.data)

\* the command succeeded on a file that has an extension
C4Wit ==
  /\ last.called
  /\ last.climode
  /\ last.outcome = "exit0"
  /\ suffix(Path(last.file)) # <<>>
  /\ OutKey(last) \notin DOMAIN last.pre
  /\ OutKey(last) \in DOMAIN fs

\* C5 as stated: when the engine succeeds the call writes the text to the
\* output file, the structured result to the sidecar, and returns the output
\* path without raising.
C5Claim ==
  \A c \in Calls :
    (~c.climode /\ c.outcome = "ok")
      => /\ c.ret = ReturnPath(c.file \o TranscribedSuffix)
         /\ c.post[OutKey(c)] = File(c.data)
         /\ SidecarKey(c) \in DOMAIN c.post
         /\ c.post[SidecarKey(c)].data # ""

\* C6: when the engine raises a RuntimeError the call returns the input path and
\* the filesystem is as before the call.
C6Thm ==
  \A c \in Calls :
    (~c.climode /\ c.outcome = "RuntimeError")
      => /\ c.ret = ReturnPath(c.file)
         /\ c.post = c.pre

\* the engine raised in a forced call on a file that had a valid output
C6Wit ==
  /\ last.called
  /\ last.force
  /\ ~last.climode
  /\ last.outcome = "RuntimeError"
  /\ OutKey(last) \in DOMAIN last.pre
  /\ last.pre[OutKey(last)].data = "old"

\* C10: a failing external command is run once, the call raises, the output file
\* opened before the command stays, and the next force=false call on the file is
\* skipped.
C10Thm ==
  /\ \A c \in Calls :
       (c.climode /\ c.outcome = "exit1")
         => /\ c.cli = 1
            /\ c.eng = 0
            /\ c.ret = Raise("CalledProcessError")
            /\ OutKey(c) \in DOMAIN c.post
            /\ c.post[OutKey(c)] = File(c.data)
  /\ (/\ prev.called
      /\ prev.climode
      /\ prev.outcome = "exit1"
      /\ last.called
      /\ ~last.force)
       => /\ Invocations(last) = 0
          /\ last.ret = ReturnPath(last.file \o TranscribedSuffix)

\* the command failed on a file without output and a force=false call followed
C10Wit ==
  /\ prev.called
  /\ prev.climode
  /\ prev.outcome = "exit1"
  /\ OutKey(prev) \notin DOMAIN prev.pre
  /\ last.called
  /\ ~last.force
  /\ last.skipped

\* ---------------------------------------------------- claims on the commands
\* the elements of a list
Range(q) == {q[i] : i \in DOMAIN q}

\* the regular files below the directory whose name ends in a listed extension,
\* less those whose path contains the ignore substring
ExpectedFiles ==
  {str(Path(k)) :
     k \in {e \in DOMAIN fs :
              /\ is_below(e, str(Path(opts.directory)))
              /\ fs[e].kind = "file"
              /\ default_pattern_match(name(Path(e)))
              /\ opts.ignore # None => ~contains(e, opts.ignore)}}

\* C7 as stated: with the default pattern get_files_recursive returns exactly
\* the regular files below the directory whose name ends in a listed extension,
\* less the paths containing the ignore substring; no directory is returned.
C7Claim ==
  (pc \in {"loop", "done"} /\ idx = 0 /\ opts.pattern = "None")
    => Range(files) = ExpectedFiles

\* C8: with an ignore substring given, no returned path contains it, in the
\* root, a directory or the name, whatever the pattern.
C8Thm ==
  (pc # "start" /\ opts.ignore # None /\ opts.ignore # <<>>)
    => \A i \in DOMAIN files : ~contains(files[i], opts.ignore)

\* a path matching the pattern was left out for the substring and another kept
C8Wit ==
  /\ pc # "start"
  /\ opts.ignore = <<"k">>
  /\ opts.pattern = "None"
  /\ files # <<>>
  /\ \E e \in DOMAIN fs : default_pattern_match(e) /\ contains(e, opts.ignore)

\* what holds of the files of a transcribe command once they are listed
C9Inv ==
  (opts.command = "transcribe" /\ pc # "start")
    => /\ \A i, j \in DOMAIN files : files[i] = files[j] => i = j
       /\ idx \in 0..Len(files)
       /\ \A i \in DOMAIN files :
            /\ status[files[i]].calls = (IF i <= idx THEN 1 ELSE 0)
            /\ status[files[i]].state = "Pending" <=> i > idx
            /\ status[files[i]].state \in {"Pending", "Skipped", "Transcribed", "Failed"}
       /\ last.called <=> idx >= 1
       /\ last.called => last.file = files[idx]

\* what holds of every step of a transcribe command
C9Step ==
  /\ pc = "start" => \A i \in DOMAIN files' : files'[i] \in rglob(fs, opts.directory)
  /\ pc # "start"
       => /\ files' = files
          /\ idx' \in {idx, idx + 1}
          /\ \A f \in DOMAIN status : status[f].state # "Pending" => status'[f] = status[f]

====
